---- MODULE Spec2Model ----
(***************************************************************************)
(* A model of the quick lookup of "The Noble Quran" (src/src/quran.tsx),   *)
(* of its remote client and cache reads (src/src/utils/api.ts), and of the *)
(* favorites store (src/src/utils/api.ts).                                 *)
(*                                                                         *)
(* A JavaScript string is a sequence of one-character strings, so that     *)
(* matching, splitting, trimming, parseInt and template formatting are     *)
(* computed character by character. A null string is the sequence Null,    *)
(* which no text equals.                                                   *)
(***************************************************************************)
EXTENDS Integers, Sequences, FiniteSets, TLC

VARIABLES
    \* Command (src/src/quran.tsx)
    rawSearchText,       \* useState("")                      quran.tsx:12
    surahs,              \* useQuran(...).data                quran.tsx:22
    quickReference,      \* useState<string | null>(null)     quran.tsx:15
    quickLookupLabel,    \* useState<string | null>(null)     quran.tsx:16
    quickAyah,           \* useState<Ayah | null>(null)       quran.tsx:17
    quickAyahError,      \* useState<string | null>(null)     quran.tsx:18
    isQuickAyahLoading,  \* useState(false)                   quran.tsx:19
    pending,             \* the effects React still has to run for the last commit
    fetches,             \* the fetchQuickAyah calls awaiting getAyahByReference
    \* remote client and cache (src/src/utils/api.ts)
    edition,             \* getPreferenceValues<Edition>().edition
    cache,               \* const cache = new Cache()         api.ts:194
    call,                \* the last call of the remote client, with its outcome
    \* favorites store (src/src/utils/api.ts)
    storage,             \* LocalStorage item "favorites"
    ops                  \* the calls of the favorites operations, in order

uiVars == <<rawSearchText, surahs, quickReference, quickLookupLabel, quickAyah,
            quickAyahError, isQuickAyahLoading, pending, fetches>>
apiVars == <<edition, cache, call>>
favVars == <<storage, ops>>
vars == <<rawSearchText, surahs, quickReference, quickLookupLabel, quickAyah,
          quickAyahError, isQuickAyahLoading, pending, fetches,
          edition, cache, call, storage, ops>>

----------------------------------------------------------------------------
(* Strings *)

Null == <<"<null>">>
NaN == -1

DigitChars == <<"0", "1", "2", "3", "4", "5", "6", "7", "8", "9">>
IsDigit(ch) == \E i \in 1..10 : DigitChars[i] = ch
DigitValue(ch) == (CHOOSE i \in 1..10 : DigitChars[i] = ch) - 1
IsSpace(ch) == ch = " "
IsSeparator(ch) == ch \in {":", "/"}

\* The number of characters from index i on that satisfy the class, up to the
\* first that does not.
RECURSIVE DigitsFrom(_, _)
DigitsFrom(s, i) ==
    IF i <= Len(s) /\ IsDigit(s[i]) THEN 1 + DigitsFrom(s, i + 1) ELSE 0

RECURSIVE SpacesFrom(_, _)
SpacesFrom(s, i) ==
    IF i <= Len(s) /\ IsSpace(s[i]) THEN 1 + SpacesFrom(s, i + 1) ELSE 0

RECURSIVE SpacesBefore(_, _)
SpacesBefore(s, i) ==
    IF i >= 1 /\ IsSpace(s[i]) THEN 1 + SpacesBefore(s, i - 1) ELSE 0

\* String.prototype.trim
trim(s) ==
    LET lead == SpacesFrom(s, 1)
    IN  IF lead = Len(s) THEN <<>>
        ELSE SubSeq(s, lead + 1, Len(s) - SpacesBefore(s, Len(s)))

\* The value of a sequence of digits.
RECURSIVE DigitsValue(_)
DigitsValue(ds) ==
    IF ds = <<>> THEN 0
    ELSE 10 * DigitsValue(SubSeq(ds, 1, Len(ds) - 1)) + DigitValue(ds[Len(ds)])

\* parseInt(s, 10): leading white space skipped, then the longest run of
\* digits; NaN when there is none (the texts here carry no sign).
parseInt(s) ==
    LET start == SpacesFrom(s, 1) + 1
        n == DigitsFrom(s, start)
    IN  IF n = 0 THEN NaN ELSE DigitsValue(SubSeq(s, start, start + n - 1))

\* Number.prototype.toString / template formatting of a non-negative integer.
RECURSIVE toString(_)
toString(n) ==
    IF n < 10 THEN <<DigitChars[n + 1]>>
    ELSE toString(n \div 10) \o <<DigitChars[(n % 10) + 1]>>

\* The letters that String.prototype.toLowerCase changes in the texts here.
UpperCase ==
    <<"A", "B", "C", "D", "E", "F", "G", "H", "I", "J", "K", "L", "M",
      "N", "O", "P", "Q", "R", "S", "T", "U", "V", "W", "X", "Y", "Z">>
LowerCase ==
    <<"a", "b", "c", "d", "e", "f", "g", "h", "i", "j", "k", "l", "m",
      "n", "o", "p", "q", "r", "s", "t", "u", "v", "w", "x", "y", "z">>

\* String.prototype.toLowerCase
toLowerCase(s) ==
    [i \in 1..Len(s) |->
        IF \E k \in 1..Len(UpperCase) : UpperCase[k] = s[i]
        THEN LowerCase[CHOOSE k \in 1..Len(UpperCase) : UpperCase[k] = s[i]]
        ELSE s[i]]

\* String.prototype.includes
includes(s, searchString) ==
    \E start \in 1..(Len(s) - Len(searchString) + 1) :
        \A k \in 1..Len(searchString) : s[start + k - 1] = searchString[k]

\* `${surahNumber}:${ayahNumber}`
FormatReference(surahNumber, ayahNumber) ==
    toString(surahNumber) \o <<":">> \o toString(ayahNumber)

\* reference.split(/[:/]/): the pieces between the separators.
RECURSIVE split(_)
split(s) ==
    IF \E i \in 1..Len(s) : IsSeparator(s[i])
    THEN LET i == CHOOSE k \in 1..Len(s) :
                      /\ IsSeparator(s[k])
                      /\ \A j \in 1..(k - 1) : ~IsSeparator(s[j])
         IN  <<SubSeq(s, 1, i - 1)>> \o split(SubSeq(s, i + 1, Len(s)))
    ELSE <<s>>

----------------------------------------------------------------------------
(* The reference pattern: /^(\d{1,3})\s*[:/]\s*(\d{1,3})$/ *)

MaxReferenceDigits == 3

NoMatch == [matched |-> FALSE]

\* searchText.match(SURAH_AYAH_REFERENCE_REGEX): the two groups, or NoMatch.
\* After the leading digits nothing but white space and one separator may
\* precede the second run of digits, which must end the text, so the greedy
\* match is the only one.
MatchReference(s) ==
    LET d1 == DigitsFrom(s, 1)
        sep == 1 + d1 + SpacesFrom(s, 1 + d1)
        second == sep + 1 + SpacesFrom(s, sep + 1)
        d2 == DigitsFrom(s, second)
    IN  IF /\ d1 \in 1..MaxReferenceDigits
           /\ sep <= Len(s)
           /\ IsSeparator(s[sep])
           /\ d2 \in 1..MaxReferenceDigits
           /\ second + d2 - 1 = Len(s)
        THEN [matched |-> TRUE,
              surah |-> SubSeq(s, 1, d1),
              ayah |-> SubSeq(s, second, Len(s))]
        ELSE NoMatch

----------------------------------------------------------------------------
(* Data: chapters, verses, editions *)

\* getPreferenceValues<Edition>().edition ranges over the translation editions.
Editions == {"en.asad", "en.pickthall"}
DEFAULT_ARABIC_EDITION == "quran-uthmani"

\* The remote's chapter list (GET /surah), of which the model carries the
\* first two chapters and the last.
Surah(n, name, count) == [number |-> n, englishName |-> name, numberOfAyahs |-> count]
QuranSurahs ==
    <<Surah(1, "Al-Faatiha", 7), Surah(2, "Al-Baqara", 286), Surah(114, "An-Naas", 6)>>

\* The characters of the english names, which the records carry whole.
Characters(englishName) ==
    CASE englishName = "Al-Faatiha" ->
            <<"A", "l", "-", "F", "a", "a", "t", "i", "h", "a">>
      [] englishName = "Al-Baqara" ->
            <<"A", "l", "-", "B", "a", "q", "a", "r", "a">>
      [] englishName = "An-Naas" -> <<"A", "n", "-", "N", "a", "a", "s">>

QuranSurahNumbers == {QuranSurahs[i].number : i \in 1..Len(QuranSurahs)}
QuranSurah(n) == QuranSurahs[CHOOSE i \in 1..Len(QuranSurahs) : QuranSurahs[i].number = n]
IsQuranAyah(c, v) == c \in QuranSurahNumbers /\ v \in 1..QuranSurah(c).numberOfAyahs

\* Values of optional fields and nullable results.
NullSurah == [null |-> TRUE]
NullAyah == [null |-> TRUE]
NoSurah == [undefined |-> TRUE]          \* an Ayah without the surah field
UndefinedText == [undefined |-> TRUE]    \* an Ayah without arabicText
UndefinedList == <<[undefined |-> TRUE]>>  \* undefined where a list is expected

\* The text of verse c:v in an edition.
AyahText(e, c, v) == [edition |-> e, surah |-> c, ayah |-> v]

\* An Ayah: numberInSurah, text, optional arabicText, optional surah.
Ayah(v, text, arabicText, surah) ==
    [numberInSurah |-> v, text |-> text, arabicText |-> arabicText, surah |-> surah]

----------------------------------------------------------------------------
(* The chapter filter (api.ts:157-167) *)

NullList == <<[null |-> TRUE]>>            \* null where a list is expected

\* A filter predicate that compares the search text as typed.
MatchesCaseSensitive(surah, text) ==
    \/ includes(toLowerCase(Characters(surah.englishName)), text)
    \/ includes(toString(surah.number), text)

\* api.ts:164-165: the predicate of the filter.
MatchesSearch(surah, text) ==
    \/ includes(toLowerCase(Characters(surah.englishName)), toLowerCase(text))
    \/ includes(toString(surah.number), toLowerCase(text))

\* api.ts:157-167
filterSurahs(list, text) ==
    IF list = UndefinedList \/ list = NullList THEN UndefinedList
    ELSE SelectSeq(list, LAMBDA surah : MatchesSearch(surah, text))

----------------------------------------------------------------------------
(* Local cache: keys and reads (api.ts:194-252) *)

\* A key that puts the edition before the chapter number.
getSurahCacheKeyEditionFirst(surahNumber, e) ==
    <<"surah", "-", e, "-">> \o toString(surahNumber)

\* A chapter key that names one edition whatever the selected one is.
getSurahCacheKeyOneEdition(surahNumber, e) ==
    <<"surah", "-">> \o toString(surahNumber) \o <<"-", "en.asad">>

\* `surah-${surahNumber}-${edition}`
getSurahCacheKey(surahNumber, e) == <<"surah", "-">> \o toString(surahNumber) \o <<"-", e>>
\* `surahs-${edition}`
getSurahListCacheKey(e) == <<"surahs", "-", e>>

\* cache.get(key): a cached string that parses to a list, one that
\* JSON.parse rejects, or nothing.
Missing == [state |-> "missing"]
Corrupt == [state |-> "corrupt"]
Cached(list) == [state |-> "json", value |-> list]

CacheGet(c, key) == IF key \in DOMAIN c THEN c[key] ELSE Missing
CacheSet(c, key, value) ==
    [k \in DOMAIN c \cup {key} |-> IF k = key THEN value ELSE c[k]]

\* Array.prototype.find: the index of the first element with the wanted
\* number, 0 when there is none.
FindSurahIndex(list, surahNumber) ==
    IF \E i \in 1..Len(list) : list[i].number = surahNumber
    THEN CHOOSE i \in 1..Len(list) :
            /\ list[i].number = surahNumber
            /\ \A j \in 1..(i - 1) : list[j].number # surahNumber
    ELSE 0

FindAyahIndex(list, ayahNumber) ==
    IF \E i \in 1..Len(list) : list[i].numberInSurah = ayahNumber
    THEN CHOOSE i \in 1..Len(list) :
            /\ list[i].numberInSurah = ayahNumber
            /\ \A j \in 1..(i - 1) : list[j].numberInSurah # ayahNumber
    ELSE 0

\* api.ts:201-219. A missing entry, an entry that does not parse (caught) and
\* a list without the chapter all give null.
tryGetSurahInfoFromCache(c, surahNumber, e) ==
    LET cachedSurahs == CacheGet(c, getSurahListCacheKey(e))
    IN  IF cachedSurahs.state # "json" THEN NullSurah
        ELSE LET i == FindSurahIndex(cachedSurahs.value, surahNumber)
             IN  IF i = 0 THEN NullSurah ELSE cachedSurahs.value[i]

\* api.ts:221-231
attachSurahInfo(ayah, surahInfo) ==
    IF surahInfo = NullSurah THEN ayah
    ELSE IF ayah.surah # NoSurah /\ ayah.surah.number = surahInfo.number THEN ayah
    ELSE [ayah EXCEPT !.surah = surahInfo]

\* api.ts:233-252
tryGetAyahFromSurahCache(c, surahNumber, ayahNumber, e) ==
    LET cachedSurah == CacheGet(c, getSurahCacheKey(surahNumber, e))
    IN  IF cachedSurah.state # "json" THEN NullAyah
        ELSE LET i == FindAyahIndex(cachedSurah.value, ayahNumber)
             IN  IF i = 0 THEN NullAyah
                 ELSE attachSurahInfo(cachedSurah.value[i],
                                      tryGetSurahInfoFromCache(c, surahNumber, e))

\* api.ts:254-268
NullReference == [null |-> TRUE]
parseReference(reference) ==
    LET parts == split(reference)
    IN  IF Len(parts) < 2 \/ parts[1] = <<>> \/ parts[2] = <<>> THEN NullReference
        ELSE LET surahNumber == parseInt(trim(parts[1]))
                 ayahNumber == parseInt(trim(parts[2]))
             IN  IF surahNumber = NaN \/ ayahNumber = NaN THEN NullReference
                 ELSE [surahNumber |-> surahNumber, ayahNumber |-> ayahNumber]

----------------------------------------------------------------------------
(* Remote client (api.ts:283-359) *)

\* What a function body does: it returns a value or it throws.
Returned(v) == [threw |-> FALSE, value |-> v]
Thrown == [threw |-> TRUE]
\* try { return body } catch (error) { console.error(error); return fallback }
TryCatch(outcome, fallback) == IF outcome.threw THEN Returned(fallback) ELSE outcome

\* What `await api.get(url)` gives: axios rejects on a network error and on a
\* status outside 2xx; otherwise the body is null or an object whose data
\* field is a list or is missing.
NetworkError == [kind |-> "networkError"]
HttpError == [kind |-> "httpError"]
NullBody == [kind |-> "nullBody"]
Ok(data) == [kind |-> "ok", data |-> data]
\* const { data } = await api.get(...); data.data
ResponseData(response) ==
    IF response.kind = "ok" THEN Returned(response.data) ELSE Thrown

\* editions.find(({ edition }) => edition.identifier === identifier): the
\* index of the first such edition, 0 when there is none.
FindEditionIndex(editions, identifier) ==
    IF \E i \in 1..Len(editions) : editions[i].identifier = identifier
    THEN CHOOSE i \in 1..Len(editions) :
            /\ editions[i].identifier = identifier
            /\ \A j \in 1..(i - 1) : editions[j].identifier # identifier
    ELSE 0

\* api.ts:284-286
getSurahBody(response) == ResponseData(response)
\* api.ts:283-291
getSurah(response) == TryCatch(getSurahBody(response), <<>>)

\* new Map(entries).get(key) over the Arabic verses: the text of the last
\* verse with that number, undefined when there is none (api.ts:311, 315).
ArabicTextOf(arabicAyahs, numberInSurah) ==
    IF \E i \in 1..Len(arabicAyahs) : arabicAyahs[i].numberInSurah = numberInSurah
    THEN arabicAyahs[CHOOSE i \in 1..Len(arabicAyahs) :
            /\ arabicAyahs[i].numberInSurah = numberInSurah
            /\ \A j \in (i + 1)..Len(arabicAyahs) :
                  arabicAyahs[j].numberInSurah # numberInSurah].text
    ELSE UndefinedText

\* A merge that pairs the two lists by position.
MergeEditionsByPosition(translationAyahs, arabicAyahs) ==
    [i \in 1..Len(translationAyahs) |->
        [translationAyahs[i] EXCEPT
            !.arabicText = IF i <= Len(arabicAyahs) THEN arabicAyahs[i].text
                           ELSE UndefinedText]]

\* api.ts:313-316
MergeEditions(translationAyahs, arabicAyahs) ==
    [i \in 1..Len(translationAyahs) |->
        [translationAyahs[i] EXCEPT
            !.arabicText = ArabicTextOf(arabicAyahs, translationAyahs[i].numberInSurah)]]

\* api.ts:301-316. Reading .find of a missing data field throws a TypeError.
getAyahsBody(userEdition, response) ==
    LET data == ResponseData(response)
    IN  IF data.threw \/ data.value = UndefinedList THEN Thrown
        ELSE LET editions == data.value
                 t == FindEditionIndex(editions, userEdition)
                 a == FindEditionIndex(editions, DEFAULT_ARABIC_EDITION)
             IN  IF t = 0 THEN Returned(<<>>)
                 ELSE Returned(MergeEditions(editions[t].ayahs,
                                             IF a = 0 THEN <<>> ELSE editions[a].ayahs))
\* api.ts:299-321
getAyahs(userEdition, response) == TryCatch(getAyahsBody(userEdition, response), <<>>)

\* api.ts:326-337: the part of getAyahByReference that runs before its await:
\* the cached verse (null on a miss) and the reference put in the request.
getAyahByReferenceSync(c, reference, userEdition) ==
    LET parsedReference == parseReference(reference)
    IN  [cachedAyah |->
            IF parsedReference = NullReference THEN NullAyah
            ELSE tryGetAyahFromSurahCache(c, parsedReference.surahNumber,
                                          parsedReference.ayahNumber, userEdition),
         normalizedReference |->
            IF parsedReference = NullReference THEN reference
            ELSE FormatReference(parsedReference.surahNumber, parsedReference.ayahNumber)]

\* api.ts:339-354: the part after the await.
getAyahByReferenceResume(userEdition, response) ==
    LET data == ResponseData(response)
    IN  IF data.threw \/ data.value = UndefinedList THEN Thrown
        ELSE LET editions == data.value
                 t == FindEditionIndex(editions, userEdition)
                 a == FindEditionIndex(editions, DEFAULT_ARABIC_EDITION)
             IN  IF t = 0 THEN Returned(NullAyah)
                 ELSE Returned(Ayah(editions[t].numberInSurah, editions[t].text,
                                    IF a = 0 THEN UndefinedText ELSE editions[a].text,
                                    editions[t].surah))

\* api.ts:323-359: the value the promise resolves to, given what the sync
\* part found and, on a cache miss, the response.
getAyahByReferenceResult(sync, userEdition, response) ==
    IF sync.cachedAyah # NullAyah THEN Returned(sync.cachedAyah)
    ELSE TryCatch(getAyahByReferenceResume(userEdition, response), NullAyah)

\* api.ts:203, 235, 326-331: the cache keys getAyahByReference reads: the
\* chapter's key when the reference parses, and the chapter list's key when
\* the verse was found under it.
getAyahByReferenceReads(c, reference, userEdition) ==
    LET parsedReference == parseReference(reference)
    IN  IF parsedReference = NullReference THEN {}
        ELSE LET cachedSurah ==
                     CacheGet(c, getSurahCacheKey(parsedReference.surahNumber, userEdition))
             IN  {getSurahCacheKey(parsedReference.surahNumber, userEdition)}
                 \cup IF cachedSurah.state = "json"
                         /\ FindAyahIndex(cachedSurah.value, parsedReference.ayahNumber) # 0
                      THEN {getSurahListCacheKey(userEdition)}
                      ELSE {}

\* The requests getAyahByReference sends: none on a cache hit, else one.
getAyahByReferenceRequests(sync) == IF sync.cachedAyah # NullAyah THEN 0 ELSE 1

----------------------------------------------------------------------------
(* The remote API *)

\* GET /ayah/<c>:<v>/editions/<e>,<arabic>: one object per edition.
AyahEdition(identifier, c, v) ==
    [identifier |-> identifier, numberInSurah |-> v,
     text |-> AyahText(identifier, c, v), surah |-> QuranSurah(c)]

\* GET /surah/<c>/editions/<e>,<arabic>: per edition, the chapter's verses.
SurahAyahs(identifier, c) ==
    [v \in 1..QuranSurah(c).numberOfAyahs |->
        Ayah(v, AyahText(identifier, c, v), UndefinedText, NoSurah)]
SurahEdition(identifier, c) == [identifier |-> identifier, ayahs |-> SurahAyahs(identifier, c)]

Failures == {NetworkError, HttpError, NullBody, Ok(UndefinedList)}

\* The answers to GET /surah.
SurahListResponses == Failures \cup {Ok(QuranSurahs)}

\* The answers to the chapter request: a failure, both editions, or one of
\* the two.
SurahResponses(c, e) ==
    Failures \cup
    {Ok(<<SurahEdition(e, c), SurahEdition(DEFAULT_ARABIC_EDITION, c)>>),
     Ok(<<SurahEdition(e, c)>>),
     Ok(<<SurahEdition(DEFAULT_ARABIC_EDITION, c)>>)}

\* The answers to the single-verse request for a reference: a failure always;
\* for a verse of the Quran also both editions, or one of the two.
AyahResponses(reference, e) ==
    LET p == parseReference(reference)
    IN  Failures \cup
        IF p # NullReference /\ IsQuranAyah(p.surahNumber, p.ayahNumber)
        THEN {Ok(<<AyahEdition(e, p.surahNumber, p.ayahNumber),
                   AyahEdition(DEFAULT_ARABIC_EDITION, p.surahNumber, p.ayahNumber)>>),
              Ok(<<AyahEdition(e, p.surahNumber, p.ayahNumber)>>),
              Ok(<<AyahEdition(DEFAULT_ARABIC_EDITION, p.surahNumber, p.ayahNumber)>>)}
        ELSE {}

\* useQuran({ apiFn, cacheKey }) keeps what apiFn fetched under cacheKey.
Persist(c, key, list) == CacheSet(c, key, Cached(list))

\* quran.tsx:24: cacheKey: `surahs-${getEdition()}`
CommandCacheKey(e) == <<"surahs", "-", e>>
\* quran.tsx:210: cacheKey: `surah-${surah.number}-${getEdition()}`
ReadSurahCacheKey(surahNumber, e) == <<"surah", "-">> \o toString(surahNumber) \o <<"-", e>>

----------------------------------------------------------------------------
(* Command: the quick lookup (quran.tsx:11-205) *)

MinSurahNumber == 1
MaxSurahNumber == 114
MinAyahNumber == 1

\* The most fetchQuickAyah calls the model lets wait at once.
MaxFetches == 2

\* What the user types into the search bar.
SearchTexts ==
    { <<>>,
      <<"b", "a", "q">>,
      <<"2", " ", ":">>,
      <<"1", ":", "7">>,
      <<"0", "0", "0", "1", ":", "7">>,
      <<"1", ":", "8">>,
      <<"1", ":", "0">>,
      <<"0", ":", "0">>,
      <<"2", ":", "2", "5", "5">>,
      <<"0", "2", " ", "/", " ", "2", "5", "5", " ">>,
      <<"2", ":", "2", "8", "7">>,
      <<"1", "1", "5", ":", "1">>,
      <<"9", "9", "9", ":", "1">>,
      <<"1", "0", "0", "0", ":", "1">> }

\* quran.tsx:13
searchText == trim(rawSearchText)

\* A normalisation that keeps the whole value.
normalizeSearchInputWhole(value) == value

\* quran.tsx:341-354: the text before the first ":" or "/", trimmed, and the
\* whole value when it has neither.
normalizeSearchInput(value) ==
    IF \A i \in 1..Len(value) : ~IsSeparator(value[i]) THEN value
    ELSE LET delimiterIndex ==
                 CHOOSE i \in 1..Len(value) :
                     /\ IsSeparator(value[i])
                     /\ \A k \in 1..(i - 1) : ~IsSeparator(value[k])
         IN  trim(SubSeq(value, 1, delimiterIndex - 1))

\* quran.tsx:26-30: the empty string is falsy, and null ?? undefined.
filteredSurahs ==
    LET normalized == normalizeSearchInput(searchText)
    IN  IF normalized # <<>> THEN filterSurahs(surahs, normalized)
        ELSE IF surahs = NullList THEN UndefinedList ELSE surahs

SurahRangeError == <<"Surah numbers range from 1 to 114">>
AyahPositiveError == <<"Ayah numbers must be positive">>
AyahNotFoundError == <<"Ayah not found">>
UnableToLoadError == <<"Unable to load ayah">>
\* A message that names the chapter by its number.
OnlyHasErrorByNumber(selectedSurah) ==
    <<"Surah ">> \o toString(selectedSurah.number) \o <<" only has ">>
        \o toString(selectedSurah.numberOfAyahs) \o <<" ayahs">>

\* `${selectedSurah.englishName} only has ${selectedSurah.numberOfAyahs} ayahs`
OnlyHasError(selectedSurah) ==
    <<selectedSurah.englishName, " only has ">>
        \o toString(selectedSurah.numberOfAyahs) \o <<" ayahs">>

\* surahs?.find((surah) => surah.number === surahNumber), null for undefined.
SelectedSurah(list, surahNumber) ==
    IF list = UndefinedList \/ FindSurahIndex(list, surahNumber) = 0 THEN NullSurah
    ELSE list[FindSurahIndex(list, surahNumber)]

\* A range check that forgets the upper end.
SurahNumberBelowRange(surahNumber) == surahNumber < MinSurahNumber

\* quran.tsx:48
SurahNumberOutOfRange(surahNumber) ==
    surahNumber < MinSurahNumber \/ surahNumber > MaxSurahNumber

\* A verse-count check that is off by one.
ExceedsAyahCountByTwo(selectedSurah, ayahNumber) ==
    selectedSurah # NullSurah /\ ayahNumber > selectedSurah.numberOfAyahs + 1

\* quran.tsx:65
ExceedsAyahCount(selectedSurah, ayahNumber) ==
    selectedSurah # NullSurah /\ ayahNumber > selectedSurah.numberOfAyahs

\* A validation that checks the verse number before the chapter number.
ValidateReferenceVerseFirst(text, list, q) ==
    LET match == MatchReference(text)
    IN  IF ~match.matched
        THEN [label |-> Null, reference |-> Null, ayah |-> NullAyah,
              error |-> Null, loading |-> FALSE]
        ELSE
        LET surahNumber == parseInt(match.surah)
            ayahNumber == parseInt(match.ayah)
            normalizedReference == FormatReference(surahNumber, ayahNumber)
            selectedSurah == SelectedSurah(list, surahNumber)
            Rejected(message) ==
                [label |-> normalizedReference, reference |-> Null, ayah |-> NullAyah,
                 error |-> message, loading |-> FALSE]
        IN  IF ayahNumber < MinAyahNumber
            THEN Rejected(AyahPositiveError)
            ELSE IF SurahNumberOutOfRange(surahNumber)
            THEN Rejected(SurahRangeError)
            ELSE IF ExceedsAyahCount(selectedSurah, ayahNumber)
            THEN Rejected(OnlyHasError(selectedSurah))
            ELSE [label |-> normalizedReference, reference |-> normalizedReference,
                  ayah |-> q.ayah, error |-> Null, loading |-> q.loading]

\* quran.tsx:32-75: the state the reference validation effect leaves, for a
\* search text and a chapter list, from the state q it finds.
ValidateReference(text, list, q) ==
    LET match == MatchReference(text)
    IN  IF ~match.matched
        THEN [label |-> Null, reference |-> Null, ayah |-> NullAyah,
              error |-> Null, loading |-> FALSE]
        ELSE
        LET surahNumber == parseInt(match.surah)
            ayahNumber == parseInt(match.ayah)
            normalizedReference == FormatReference(surahNumber, ayahNumber)
            selectedSurah == SelectedSurah(list, surahNumber)
            Rejected(message) ==
                [label |-> normalizedReference, reference |-> Null, ayah |-> NullAyah,
                 error |-> message, loading |-> FALSE]
        IN  IF SurahNumberOutOfRange(surahNumber)
            THEN Rejected(SurahRangeError)
            ELSE IF ayahNumber < MinAyahNumber
            THEN Rejected(AyahPositiveError)
            ELSE IF ExceedsAyahCount(selectedSurah, ayahNumber)
            THEN Rejected(OnlyHasError(selectedSurah))
            ELSE [label |-> normalizedReference, reference |-> normalizedReference,
                  ayah |-> q.ayah, error |-> Null, loading |-> q.loading]

\* The lookup state the effects read and write.
LookupState ==
    [label |-> quickLookupLabel, reference |-> quickReference, ayah |-> quickAyah,
     error |-> quickAyahError, loading |-> isQuickAyahLoading]

\* quran.tsx:137: onSearchTextChange={setRawSearchText}. The validation effect
\* is due when searchText, its dependency, changed.
SetSearchText(raw) ==
    /\ pending = "none"
    /\ Len(fetches) < MaxFetches
    /\ raw # rawSearchText
    /\ rawSearchText' = raw
    /\ pending' = IF trim(raw) # searchText THEN "validation" ELSE "none"
    /\ UNCHANGED <<surahs, quickReference, quickLookupLabel, quickAyah, quickAyahError,
                   isQuickAyahLoading, fetches, apiVars, favVars>>

\* quran.tsx:22-25: useQuran resolves getSurah; data becomes its result, kept
\* under `surahs-${getEdition()}` when it is a list. The validation effect is
\* due when surahs, its dependency, changed.
SurahsLoaded(response) ==
    LET result == getSurah(response).value
    IN  /\ pending = "none"
        /\ surahs = UndefinedList
        /\ result # UndefinedList
        /\ surahs' = result
        /\ cache' = Persist(cache, CommandCacheKey(edition), result)
        /\ pending' = "validation"
        /\ UNCHANGED <<rawSearchText, quickReference, quickLookupLabel, quickAyah,
                       quickAyahError, isQuickAyahLoading, fetches, edition, call, favVars>>

\* A validation run after which the fetch effect is always due.
RunValidationEffectThenFetch ==
    LET v == ValidateReference(searchText, surahs, LookupState)
    IN  /\ pending = "validation"
        /\ quickLookupLabel' = v.label
        /\ quickReference' = v.reference
        /\ quickAyah' = v.ayah
        /\ quickAyahError' = v.error
        /\ isQuickAyahLoading' = v.loading
        /\ pending' = "fetch"
        /\ UNCHANGED <<rawSearchText, surahs, fetches, apiVars, favVars>>

\* quran.tsx:32-75. The fetch effect is due when quickReference changed.
RunValidationEffect ==
    LET v == ValidateReference(searchText, surahs, LookupState)
    IN  /\ pending = "validation"
        /\ quickLookupLabel' = v.label
        /\ quickReference' = v.reference
        /\ quickAyah' = v.ayah
        /\ quickAyahError' = v.error
        /\ isQuickAyahLoading' = v.loading
        /\ pending' = IF v.reference # quickReference THEN "fetch" ELSE "none"
        /\ UNCHANGED <<rawSearchText, surahs, fetches, apiVars, favVars>>

\* quran.tsx:113-115: the cleanup of the effect's last run.
Cancelled(fs) == [i \in 1..Len(fs) |-> [fs[i] EXCEPT !.didCancel = TRUE]]

\* quran.tsx:84-90: fetchQuickAyah up to its await. The record of a waiting
\* call also keeps the search text it was started for.
StartFetch(reference) ==
    [reference |-> reference, didCancel |-> FALSE, userEdition |-> edition,
     sync |-> getAyahByReferenceSync(cache, reference, edition),
     text |-> searchText]

\* quran.tsx:77-116: the cleanup of the last run, then the effect.
RunFetchEffect ==
    /\ pending = "fetch"
    /\ pending' = "none"
    /\ IF quickReference = Null
       THEN /\ fetches' = Cancelled(fetches)
            /\ UNCHANGED <<quickAyah, quickAyahError, isQuickAyahLoading>>
       ELSE /\ fetches' = Append(Cancelled(fetches), StartFetch(quickReference))
            /\ isQuickAyahLoading' = TRUE
            /\ quickAyah' = NullAyah
            /\ quickAyahError' = Null
    /\ UNCHANGED <<rawSearchText, surahs, quickReference, quickLookupLabel, apiVars, favVars>>

\* A continuation that never looks at didCancel.
AfterAwaitUnchecked(f, outcome, q) ==
    IF outcome.threw THEN [q EXCEPT !.error = UnableToLoadError, !.loading = FALSE]
    ELSE IF outcome.value # NullAyah THEN [q EXCEPT !.ayah = outcome.value, !.loading = FALSE]
    ELSE [q EXCEPT !.error = AyahNotFoundError, !.loading = FALSE]

\* quran.tsx:90-108: fetchQuickAyah from its await on, for a value the promise
\* resolves to or a rejection.
AfterAwait(f, outcome, q) ==
    IF f.didCancel THEN q
    ELSE IF outcome.threw THEN [q EXCEPT !.error = UnableToLoadError, !.loading = FALSE]
    ELSE IF outcome.value # NullAyah THEN [q EXCEPT !.ayah = outcome.value, !.loading = FALSE]
    ELSE [q EXCEPT !.error = AyahNotFoundError, !.loading = FALSE]

Remove(seq, i) == SubSeq(seq, 1, i - 1) \o SubSeq(seq, i + 1, Len(seq))

\* The responses that can answer fetch f: those of its request, or none
\* needed when the cache answered.
ResponsesFor(f) ==
    IF getAyahByReferenceRequests(f.sync) = 0 THEN {NetworkError}
    ELSE AyahResponses(f.sync.normalizedReference, f.userEdition)

\* getAyahByReference of the i-th waiting fetch resolves, in any order.
ResolveFetch(i, response) ==
    LET f == fetches[i]
        q == AfterAwait(f, getAyahByReferenceResult(f.sync, f.userEdition, response),
                        LookupState)
    IN  /\ pending = "none"
        /\ quickAyah' = q.ayah
        /\ quickAyahError' = q.error
        /\ isQuickAyahLoading' = q.loading
        /\ fetches' = Remove(fetches, i)
        /\ UNCHANGED <<rawSearchText, surahs, quickReference, quickLookupLabel, pending,
                       apiVars, favVars>>

\* The cache a session can start with: empty, or holding what an earlier
\* session fetched for the chapter list and for chapter 1.
WarmCache(e) ==
    Persist(Persist(<<>>, CommandCacheKey(e), QuranSurahs),
            ReadSurahCacheKey(1, e),
            getAyahs(e, Ok(<<SurahEdition(e, 1), SurahEdition(DEFAULT_ARABIC_EDITION, 1)>>)).value)

IdleCall == [op |-> "none"]

\* The state after Command has mounted and its effects have run once.
Init ==
    /\ rawSearchText = <<>>
    /\ surahs = UndefinedList
    /\ quickReference = Null
    /\ quickLookupLabel = Null
    /\ quickAyah = NullAyah
    /\ quickAyahError = Null
    /\ isQuickAyahLoading = FALSE
    /\ pending = "none"
    /\ fetches = <<>>
    /\ edition = "en.asad"
    /\ cache \in {<<>>, WarmCache("en.asad")}
    /\ call = IdleCall
    /\ storage = <<>>
    /\ ops = <<>>

Next ==
    \/ \E raw \in SearchTexts : SetSearchText(raw)
    \/ \E response \in SurahListResponses : SurahsLoaded(response)
    \/ RunValidationEffect
    \/ RunFetchEffect
    \/ \E i \in 1..Len(fetches) : \E response \in ResponsesFor(fetches[i]) :
          ResolveFetch(i, response)

Spec == Init /\ [][Next]_vars

----------------------------------------------------------------------------
(* The remote client called over a cache that the presentation layer fills *)

\* The chapters the user opens in ReadSurah.
ReadChapters == {1}

\* The references the quick lookup asks for.
LookupReferences ==
    { <<"1", ":", "7">>, <<"1", ":", "8">>, <<"2", ":", "2", "5", "5">> }

\* The ways the remote API answers here: every answer that carries data, and
\* of the failures the network error (all of them end in the same catch).
Answers(responses) == (responses \ Failures) \cup {NetworkError}

\* quran.tsx:356-362: the chapter shown for a verse without a fallback.
resolveSurahInfo(ayah) ==
    IF ayah.surah # NoSurah
    THEN [englishName |-> ayah.surah.englishName, number |-> ayah.surah.number]
    ELSE [englishName |-> "Surah", number |-> 0]

\* The user selects another translation edition in the preferences.
ChangeEdition(e) ==
    /\ e # edition
    /\ edition' = e
    /\ UNCHANGED <<uiVars, cache, call, favVars>>

\* quran.tsx:22-25: Command's useQuran calls getSurah and keeps a list it
\* got under its cacheKey.
LoadSurahs(response) ==
    LET outcome == getSurah(response)
    IN  /\ surahs = UndefinedList
        /\ call' = [op |-> "getSurah", response |-> response, outcome |-> outcome]
        /\ surahs' = outcome.value
        /\ cache' = IF outcome.value = UndefinedList THEN cache
                    ELSE Persist(cache, CommandCacheKey(edition), outcome.value)
        /\ UNCHANGED <<rawSearchText, quickReference, quickLookupLabel, quickAyah,
                       quickAyahError, isQuickAyahLoading, pending, fetches,
                       edition, favVars>>

\* Command is closed and opened again.
Relaunch ==
    /\ surahs # UndefinedList
    /\ surahs' = UndefinedList
    /\ UNCHANGED <<rawSearchText, quickReference, quickLookupLabel, quickAyah,
                   quickAyahError, isQuickAyahLoading, pending, fetches,
                   apiVars, favVars>>

\* quran.tsx:187, 207-211: the user opens a listed chapter; ReadSurah's
\* useQuran calls getAyahs and keeps the list under its cacheKey.
ReadSurah(surahNumber, response) ==
    LET outcome == getAyahs(edition, response)
    IN  /\ surahs # UndefinedList
        /\ FindSurahIndex(surahs, surahNumber) # 0
        /\ call' = [op |-> "getAyahs", surahNumber |-> surahNumber, userEdition |-> edition,
                    response |-> response, outcome |-> outcome]
        /\ cache' = Persist(cache, ReadSurahCacheKey(surahNumber, edition), outcome.value)
        /\ UNCHANGED <<uiVars, edition, favVars>>

\* api.ts:323-359: getAyahByReference, from the call to the value its promise
\* resolves to; on a cache miss the remote API answers in one of its ways.
Lookup(reference) ==
    LET sync == getAyahByReferenceSync(cache, reference, edition)
    IN  /\ \E response \in Answers(ResponsesFor([sync |-> sync, userEdition |-> edition])) :
              call' = [op |-> "getAyahByReference", reference |-> reference,
                       userEdition |-> edition,
                       requests |-> getAyahByReferenceRequests(sync),
                       reads |-> getAyahByReferenceReads(cache, reference, edition),
                       response |-> response,
                       outcome |-> getAyahByReferenceResult(sync, edition, response)]
        /\ UNCHANGED <<uiVars, edition, cache, favVars>>

InitApi ==
    /\ rawSearchText = <<>>
    /\ surahs = UndefinedList
    /\ quickReference = Null
    /\ quickLookupLabel = Null
    /\ quickAyah = NullAyah
    /\ quickAyahError = Null
    /\ isQuickAyahLoading = FALSE
    /\ pending = "none"
    /\ fetches = <<>>
    /\ edition \in Editions
    /\ cache = <<>>
    /\ call = IdleCall
    /\ storage = <<>>
    /\ ops = <<>>

NextApi ==
    \/ \E e \in Editions : ChangeEdition(e)
    \/ \E response \in SurahListResponses : LoadSurahs(response)
    \/ Relaunch
    \/ \E c \in ReadChapters : \E response \in Answers(SurahResponses(c, edition)) :
          ReadSurah(c, response)
    \/ \E reference \in LookupReferences : Lookup(reference)

SpecApi == InitApi /\ [][NextApi]_vars

----------------------------------------------------------------------------
(* What the claims speak of *)

\* quran.tsx:143-163: what the Quick Lookup section shows.
Shown ==
    IF quickLookupLabel = Null THEN [kind |-> "nothing"]
    ELSE IF isQuickAyahLoading THEN [kind |-> "loading", label |-> quickLookupLabel]
    ELSE IF quickAyah # NullAyah
         THEN [kind |-> "ayah", label |-> quickLookupLabel, ayah |-> quickAyah]
    ELSE IF quickAyahError # Null
         THEN [kind |-> "error", label |-> quickLookupLabel, message |-> quickAyahError]
    ELSE [kind |-> "blank", label |-> quickLookupLabel]

\* quran.tsx:165-202: the chapters listed below the Quick Lookup section.
ShownSurahs ==
    IF quickLookupLabel = Null /\ filteredSurahs # UndefinedList
    THEN filteredSurahs ELSE <<>>

\* A text of the form <digits><separator><digits>, with any number of digits
\* and white space around the separator: its two numbers.
DigitsSeparatorDigits(s) ==
    LET d1 == DigitsFrom(s, 1)
        sep == 1 + d1 + SpacesFrom(s, 1 + d1)
        second == sep + 1 + SpacesFrom(s, sep + 1)
        d2 == DigitsFrom(s, second)
    IN  IF d1 >= 1 /\ sep <= Len(s) /\ IsSeparator(s[sep]) /\ d2 >= 1
           /\ second + d2 - 1 = Len(s)
        THEN [form |-> TRUE, surahNumber |-> DigitsValue(SubSeq(s, 1, d1)),
              ayahNumber |-> DigitsValue(SubSeq(s, second, Len(s))),
              digits |-> IF d1 > d2 THEN d1 ELSE d2]
        ELSE [form |-> FALSE, surahNumber |-> 0, ayahNumber |-> 0, digits |-> 0]

\* The reference a text denotes, Null when it is not of the form.
Denoted(s) ==
    IF DigitsSeparatorDigits(s).form
    THEN FormatReference(DigitsSeparatorDigits(s).surahNumber,
                         DigitsSeparatorDigits(s).ayahNumber)
    ELSE Null

\* sub occurs in s as a run of consecutive elements.
IsInfix(sub, s) ==
    \E k \in 0..(Len(s) - Len(sub)) : SubSeq(s, k + 1, k + Len(sub)) = sub

LookupUnchanged == UNCHANGED <<quickAyah, quickAyahError, isQuickAyahLoading>>

\* The step in which the i-th waiting getAyahByReference call resolves.
Resolves(i) == i \in 1..Len(fetches) /\ fetches' = Remove(fetches, i)
\* The step in which fetchQuickAyah is started.
Starts == Len(fetches') > Len(fetches)

(* C1, as stated: the result of a fetch started for an earlier input is
   discarded once the search text has changed before it resolved: the step
   that resolves it leaves the displayed verse, the error and the loading flag
   as they are. *)
C1_ChangedInputDiscards ==
    [][\A i \in 1..Len(fetches) :
          (Resolves(i) /\ fetches[i].text # searchText) => LookupUnchanged]_vars

(* C1, amended: the result of a fetch is discarded once, before it resolved,
   a later fetch was started or the search text changed to one that does not
   denote the fetch's reference. (A text that denotes the same reference keeps
   the fetch, and its result is shown.) *)
C1_StaleFetchDiscarded ==
    [][\A i \in 1..Len(fetches) :
          (Resolves(i) /\ (i < Len(fetches) \/ Denoted(searchText) # fetches[i].reference))
              => LookupUnchanged]_vars

\* C1's case: the verse of the newer reference is displayed while the fetch
\* of an older, different reference still waits.
C1_Witness ==
    /\ pending = "none"
    /\ quickAyah # NullAyah
    /\ \E i \in 1..Len(fetches) :
          /\ fetches[i].reference # quickReference
          /\ fetches[i].text # searchText

\* The waiting calls started for the current search text.
StartedForCurrentText == {i \in 1..Len(fetches) : fetches[i].text = searchText}

ChapterOutOfRange(s) ==
    /\ DigitsSeparatorDigits(s).form
    /\ DigitsSeparatorDigits(s).surahNumber \notin MinSurahNumber..MaxSurahNumber

(* C3, as stated: once validation has run for a text <digits><separator>
   <digits> whose chapter number is outside 1..114, whatever the number of
   digits, the lookup shows the chapter-out-of-range error and no
   getAyahByReference call has been started for the text. *)
C3_OutOfRangeAlwaysError ==
    (pending # "validation" /\ ChapterOutOfRange(searchText))
        => /\ Shown = [kind |-> "error", label |-> Denoted(searchText),
                       message |-> SurahRangeError]
           /\ StartedForCurrentText = {}

(* C3, amended: once validation has run for such a text, no getAyahByReference
   call has been started for it; when both numbers have at most three digits
   the lookup shows the chapter-out-of-range error, and when one has more the
   text is not a reference: the lookup is cleared and shows nothing. *)
C3_OutOfRangeRejected ==
    (pending # "validation" /\ ChapterOutOfRange(searchText))
        => /\ StartedForCurrentText = {}
           /\ quickReference = Null
           /\ IF DigitsSeparatorDigits(searchText).digits <= MaxReferenceDigits
              THEN Shown = [kind |-> "error", label |-> Denoted(searchText),
                            message |-> SurahRangeError]
              ELSE Shown = [kind |-> "nothing"] /\ quickAyahError = Null

\* C3's case: an out-of-range chapter was typed while a fetch was waiting, and
\* the range error is shown.
C3_Witness ==
    /\ pending = "none"
    /\ ChapterOutOfRange(searchText)
    /\ DigitsSeparatorDigits(searchText).surahNumber > MaxSurahNumber
    /\ quickAyahError = SurahRangeError
    /\ fetches # <<>>

\* The chapter list is loaded and the search text is a reference c:v with c in
\* 1..114 and v above the verse count the list gives for chapter c.
AboveKnownCount ==
    /\ surahs # UndefinedList
    /\ MatchReference(searchText).matched
    /\ ~ChapterOutOfRange(searchText)
    /\ SelectedSurah(surahs, DigitsSeparatorDigits(searchText).surahNumber) # NullSurah
    /\ DigitsSeparatorDigits(searchText).ayahNumber >
          SelectedSurah(surahs, DigitsSeparatorDigits(searchText).surahNumber).numberOfAyahs

(* C4: when the chapter list is loaded and the search text is a reference c:v
   with c in 1..114 and v greater than the verse count of chapter c, then once
   validation has run the error shown contains the chapter's english name and
   its verse count, the pending reference is cleared, and no fetch is started
   or left active. *)
C4_VerseCountRejected ==
    /\ [](  (pending # "validation" /\ AboveKnownCount)
            => LET chapter == SelectedSurah(surahs,
                                  DigitsSeparatorDigits(searchText).surahNumber)
               IN  /\ Shown.kind = "error"
                   /\ IsInfix(<<chapter.englishName>>, Shown.message)
                   /\ IsInfix(toString(chapter.numberOfAyahs), Shown.message)
                   /\ quickReference = Null
                   /\ (pending = "none" => \A i \in 1..Len(fetches) : fetches[i].didCancel))
    /\ [][(pending # "validation" /\ AboveKnownCount) => ~Starts]_vars

\* C4's case: 2:287 is rejected against the loaded list.
C4_Witness ==
    /\ pending = "none"
    /\ AboveKnownCount
    /\ DigitsSeparatorDigits(searchText).surahNumber = 2
    /\ quickAyahError # Null

\* The verse count of the Quran's chapter c is below v.
AboveQuranCount(reference) ==
    LET p == parseReference(reference)
    IN  /\ p.surahNumber \in QuranSurahNumbers
        /\ p.ayahNumber > QuranSurah(p.surahNumber).numberOfAyahs

\* The loaded chapter list gives chapter c fewer than v verses.
AboveLoadedCount(reference) ==
    LET p == parseReference(reference)
    IN  /\ surahs # UndefinedList
        /\ SelectedSurah(surahs, p.surahNumber) # NullSurah
        /\ p.ayahNumber > SelectedSurah(surahs, p.surahNumber).numberOfAyahs

(* C5, as stated: no getAyahByReference call is ever started for a reference
   c:v whose verse number exceeds the verse count of chapter c, also when the
   reference is typed before the chapter list has loaded. *)
C5_NeverFetchAboveCount ==
    \A i \in 1..Len(fetches) : ~AboveQuranCount(fetches[i].reference)

(* C5, amended: no getAyahByReference call is started for a reference c:v
   whose verse number exceeds the verse count that the loaded chapter list
   gives for chapter c; a reference typed before the list has loaded is
   fetched, and once the list has arrived and the effects have run no such
   call is left uncancelled. *)
C5_NoFetchAboveLoadedCount ==
    /\ [][Starts => ~AboveLoadedCount(fetches'[Len(fetches')].reference)]_vars
    /\ [](pending = "none" =>
            \A i \in 1..Len(fetches) :
               AboveLoadedCount(fetches[i].reference) => fetches[i].didCancel)

\* C5's case: 2:287 was fetched before the chapter list loaded, the list has
\* arrived, and the call, still waiting, is cancelled.
C5_Witness ==
    /\ pending = "none"
    /\ surahs # UndefinedList
    /\ \E i \in 1..Len(fetches) :
          /\ AboveLoadedCount(fetches[i].reference)
          /\ fetches[i].didCancel
          /\ fetches[i].text = searchText


----------------------------------------------------------------------------
(* The remote client over the cache *)

\* The step in which getAyahByReference is called and resolves.
LooksUp == call' # call /\ call'.op = "getAyahByReference"

\* What the cache holds under surah-<c>-<e>: the list, or <<>> when there is
\* no list there.
CachedVerses(c, e) ==
    LET key == <<"surah", "-">> \o toString(c) \o <<"-", e>>
    IN  IF key \in DOMAIN cache /\ cache[key].state = "json" THEN cache[key].value
        ELSE <<>>

\* r has the fields of the cached record x, its chapter back-reference being
\* x's or chapter c.
MatchesCached(r, x, c) ==
    /\ r # NullAyah
    /\ r.numberInSurah = x.numberInSurah
    /\ r.text = x.text
    /\ r.arabicText = x.arabicText
    /\ \/ r.surah = x.surah
       \/ r.surah # NoSurah /\ r.surah.number = c

(* C2: whenever the cache holds, under surah-<c>-<current edition>, a verse
   list, getAyahByReference("c:v") for every verse v present in that list
   sends no request and returns a record with the fields of a cached record
   of verse v, optionally extended with the chapter back-reference. *)
C2_CacheThenNetwork ==
    [][LooksUp =>
         \A c \in QuranSurahNumbers :
            \A i \in 1..Len(CachedVerses(c, edition)) :
               LET x == CachedVerses(c, edition)[i]
               IN  call'.reference = FormatReference(c, x.numberInSurah)
                      => /\ call'.requests = 0
                         /\ ~call'.outcome.threw
                         /\ \E j \in 1..Len(CachedVerses(c, edition)) :
                               /\ CachedVerses(c, edition)[j].numberInSurah = x.numberInSurah
                               /\ MatchesCached(call'.outcome.value,
                                                CachedVerses(c, edition)[j], c)]_vars

\* C2's case: a verse was returned from the cached list without a request,
\* once as cached and once extended with the chapter.
C2_Witness ==
    /\ call.op = "getAyahByReference"
    /\ call.requests = 0
    /\ call.outcome.value # NullAyah
    /\ call.outcome.value.surah # NoSurah
    /\ CachedVerses(call.outcome.value.surah.number, call.userEdition) # <<>>


\* getAyahByReference("c:v") for a verse of the Quran has returned a verse.
ReturnedVerse(c, v) ==
    /\ call.op = "getAyahByReference"
    /\ call.reference = FormatReference(c, v)
    /\ IsQuranAyah(c, v)
    /\ ~call.outcome.threw
    /\ call.outcome.value # NullAyah

(* C6, as stated: for every chapter c and verse v of it, whenever
   getAyahByReference("c:v") returns a verse, from the cache or from the
   remote API, the verse's number in its chapter is v and its chapter
   back-reference has number c, so that the location shown is (c, v). *)
C6_ReturnedVerseLocated ==
    \A c \in QuranSurahNumbers :
       \A v \in 1..QuranSurah(c).numberOfAyahs :
          ReturnedVerse(c, v)
             => /\ call.outcome.value.numberInSurah = v
                /\ call.outcome.value.surah # NoSurah
                /\ call.outcome.value.surah.number = c
                /\ resolveSurahInfo(call.outcome.value).number = c

\* The remote request of the last call failed: a network error, a status
\* outside 2xx, a null body or a body without the data field.
RequestFailed ==
    /\ call.op # "none"
    /\ call.response \in Failures
    /\ call.op = "getAyahByReference" => call.requests = 1

(* C8, as stated: for every failure of the remote request, getSurah returns
   an empty list, getAyahs returns an empty list and getAyahByReference
   returns the absent value; none of them raises, and none returns anything
   but a well-formed result or its sentinel. *)
C8_SoftFailure ==
    /\ call.op # "none" => ~call.outcome.threw /\ call.outcome.value # UndefinedList
    /\ RequestFailed
          => call.outcome.value =
                IF call.op = "getAyahByReference" THEN NullAyah ELSE <<>>


----------------------------------------------------------------------------
(* getAyahs as a function of the response (api.ts:299-321) *)

\* The verse numbers the responses of this part range over.
MaxMergeAyahs == 2

\* The sequences of at most n distinct elements of S.
DistinctSeqs(S, n) ==
    {s \in UNION {[1..k -> S] : k \in 0..n} :
        \A i, j \in 1..Len(s) : i # j => s[i] # s[j]}

\* The verses of chapter c an edition sends, with the given numbers in the
\* given order.
EditionAyahs(identifier, c, numbers) ==
    [i \in 1..Len(numbers) |->
        Ayah(numbers[i], AyahText(identifier, c, numbers[i]), UndefinedText, NoSurah)]

\* The answers to the chapter request: a failure, no edition, one of the two
\* editions, or both in either order, each with its own verses.
MergeResponses(c, e) ==
    LET lists == DistinctSeqs(1..MaxMergeAyahs, MaxMergeAyahs)
        T(ns) == [identifier |-> e, ayahs |-> EditionAyahs(e, c, ns)]
        A(ns) == [identifier |-> DEFAULT_ARABIC_EDITION,
                  ayahs |-> EditionAyahs(DEFAULT_ARABIC_EDITION, c, ns)]
    IN  Failures \cup {Ok(<<>>)}
        \cup {Ok(<<T(ns)>>) : ns \in lists}
        \cup {Ok(<<A(ns)>>) : ns \in lists}
        \cup {Ok(<<T(ts), A(as)>>) : ts \in lists, as \in lists}
        \cup {Ok(<<A(as), T(ts)>>) : ts \in lists, as \in lists}

\* getAyahs(surahNumber) is called and the remote API answers.
InitMerge ==
    /\ rawSearchText = <<>>
    /\ surahs = UndefinedList
    /\ quickReference = Null
    /\ quickLookupLabel = Null
    /\ quickAyah = NullAyah
    /\ quickAyahError = Null
    /\ isQuickAyahLoading = FALSE
    /\ pending = "none"
    /\ fetches = <<>>
    /\ edition \in Editions
    /\ cache = <<>>
    /\ \E c \in ReadChapters : \E response \in MergeResponses(c, edition) :
          call = [op |-> "request", surahNumber |-> c, userEdition |-> edition,
                  response |-> response]
    /\ storage = <<>>
    /\ ops = <<>>

\* api.ts:299-321: getAyahs resolves.
GetAyahs ==
    /\ call.op = "request"
    /\ call' = [op |-> "getAyahs", surahNumber |-> call.surahNumber,
                userEdition |-> call.userEdition, response |-> call.response,
                outcome |-> getAyahs(call.userEdition, call.response)]
    /\ UNCHANGED <<uiVars, edition, cache, favVars>>

NextMerge == GetAyahs

SpecMerge == InitMerge /\ [][NextMerge]_vars


\* getAyahs has resolved for a response that carries a list of editions.
MergedEditions == call.op = "getAyahs" /\ call.response.kind = "ok"
                     /\ call.response.data # UndefinedList

\* The verses of the edition with the identifier in the response, <<>> when
\* the edition is missing.
HasEdition(identifier) ==
    \E k \in 1..Len(call.response.data) : call.response.data[k].identifier = identifier
AyahsOfEdition(identifier) ==
    IF HasEdition(identifier)
    THEN call.response.data[CHOOSE k \in 1..Len(call.response.data) :
            call.response.data[k].identifier = identifier].ayahs
    ELSE <<>>

(* C7: for every two-edition response, getAyahs returns the empty list if
   the translation edition is missing; otherwise one record per translation
   verse, in the translation's order, each keeping the translation's fields
   and carrying as Arabic text the text of the Arabic edition's verse with the
   same number, or no Arabic text when there is no such verse. *)
C7_EditionMerge ==
    MergedEditions =>
        LET result == call.outcome.value
            translation == AyahsOfEdition(call.userEdition)
            arabic == AyahsOfEdition(DEFAULT_ARABIC_EDITION)
        IN  /\ ~call.outcome.threw
            /\ ~HasEdition(call.userEdition) => result = <<>>
            /\ HasEdition(call.userEdition) =>
                  /\ Len(result) = Len(translation)
                  /\ \A i \in 1..Len(translation) :
                        /\ result[i].numberInSurah = translation[i].numberInSurah
                        /\ result[i].text = translation[i].text
                        /\ result[i].surah = translation[i].surah
                        /\ \A j \in 1..Len(arabic) :
                              arabic[j].numberInSurah = translation[i].numberInSurah
                                 => result[i].arabicText = arabic[j].text
                        /\ (\A j \in 1..Len(arabic) :
                              arabic[j].numberInSurah # translation[i].numberInSurah)
                                 => result[i].arabicText = UndefinedText

\* C7's case: of two merged verses the first has no Arabic counterpart and
\* the second has the only verse of the Arabic edition.
C7_Witness ==
    /\ MergedEditions
    /\ Len(call.outcome.value) = 2
    /\ call.outcome.value[1].arabicText = UndefinedText
    /\ call.outcome.value[2].arabicText # UndefinedText
    /\ Len(AyahsOfEdition(DEFAULT_ARABIC_EDITION)) = 1


----------------------------------------------------------------------------
(* Favorites (api.ts:79-172) *)

\* A FavoriteAyah as an object in memory; arabicText may be undefined.
FavoriteAyah(text, arabicText, ayahNumber, surah, surahNumber) ==
    [text |-> text, arabicText |-> arabicText, ayahNumber |-> ayahNumber,
     surah |-> surah, surahNumber |-> surahNumber]

\* JSON.stringify leaves out a property whose value is undefined, and
\* JSON.parse gives an object without it.
StoredFavorite(favorite) ==
    IF favorite.arabicText = UndefinedText
    THEN [text |-> favorite.text, ayahNumber |-> favorite.ayahNumber,
          surah |-> favorite.surah, surahNumber |-> favorite.surahNumber]
    ELSE favorite
JSONStringify(favorites) == [i \in 1..Len(favorites) |-> StoredFavorite(favorites[i])]

\* Reading a property an object does not have gives undefined.
ParsedFavorite(stored) ==
    FavoriteAyah(stored.text,
                 IF "arabicText" \in DOMAIN stored THEN stored.arabicText ELSE UndefinedText,
                 stored.ayahNumber, stored.surah, stored.surahNumber)
JSONParse(json) == [i \in 1..Len(json) |-> ParsedFavorite(json[i])]

\* LocalStorage.getItem of a key that was never set.
NoItem == <<[undefined |-> TRUE]>>

\* api.ts:85-87: JSON.parse((await LocalStorage.getItem(key)) || "[]")
readFavoritesFromStorage(item) == IF item = NoItem THEN <<>> ELSE JSONParse(item)
\* api.ts:92-94: the item written
writeFavoritesToStorage(favorites) == JSONStringify(favorites)

\* What axios.get of the Arabic edition of one verse gives: a rejection, a
\* null body, a body without data, or the verse.
NoData == [undefined |-> TRUE]
ArabicAyahFailures == {NetworkError, HttpError, NullBody, Ok(NoData)}
ArabicAyah(surahNumber, ayahNumber) ==
    Ok([text |-> AyahText(DEFAULT_ARABIC_EDITION, surahNumber, ayahNumber)])

\* api.ts:99-109: data?.data?.text, undefined when the request is rejected.
fetchArabicAyahText(response) ==
    IF response.kind = "ok" /\ response.data # NoData THEN response.data.text
    ELSE UndefinedText

\* api.ts:114-121
ensureArabicText(favorite, response) ==
    IF favorite.arabicText # UndefinedText THEN favorite
    ELSE LET arabicText == fetchArabicAyahText(response)
         IN  IF arabicText # UndefinedText
             THEN [favorite EXCEPT !.arabicText = arabicText]
             ELSE favorite

\* api.ts:127: favorites.some((favorite) => !favorite.arabicText)
NeedsMigration(favorites) ==
    \E i \in 1..Len(favorites) : favorites[i].arabicText = UndefinedText

\* The answers to the requests of Promise.all(favorites.map(ensureArabicText)),
\* one per favorite: none for a favorite that has its Arabic text; of the
\* others some get their verse and the rest fail, here all in the same way.
NoRequest == [kind |-> "none"]
\* Requests for every favorite, whether it has its Arabic text or not.
ArabicRequestsForAll(favorites) == 1..Len(favorites)
\* api.ts:115-119: the favorites for which ensureArabicText gets past its
\* early return and calls fetchArabicAyahText.
ArabicRequests(favorites) ==
    {i \in 1..Len(favorites) : favorites[i].arabicText = UndefinedText}
MigrationResponses(favorites) ==
    LET requested == ArabicRequests(favorites)
    IN  {[i \in 1..Len(favorites) |->
            IF i \notin requested THEN NoRequest
            ELSE IF i \in answered
                 THEN ArabicAyah(favorites[i].surahNumber, favorites[i].ayahNumber)
                 ELSE failure] :
         answered \in SUBSET requested, failure \in ArabicAyahFailures}

\* api.ts:131: Promise.all(favorites.map(ensureArabicText))
migratedFavoritesOf(favorites, responses) ==
    [i \in 1..Len(favorites) |-> ensureArabicText(favorites[i], responses[i])]

\* A filter that keeps what differs in the verse number alone.
KeepsFavoriteByAyahNumber(favorite, ayah) == favorite.ayahNumber # ayah.ayahNumber

\* api.ts:151-153: the entries removeAyahFromFavorites keeps
KeepsFavorite(favorite, ayah) ==
    favorite.ayahNumber # ayah.ayahNumber \/ favorite.surahNumber # ayah.surahNumber

\* api.ts:151: favorites.filter(...)
WithoutAyah(favorites, ayah) ==
    SelectSeq(favorites, LAMBDA favorite : KeepsFavorite(favorite, ayah))

\* A list with the new favorite in front.
WithAyahInFront(favorites, ayah) == <<ayah>> \o favorites

\* api.ts:145: [...favorites, ayah]
WithAyah(favorites, ayah) == Append(favorites, ayah)


\* The favorites the user adds and removes (quran.tsx:326-335): verses 1:7
\* and 2:7, the first with and without its Arabic text.
MaxStored == 3
MaxOps == 2
FavoriteOf(c, v, withArabic) ==
    FavoriteAyah(AyahText("en.asad", c, v),
                 IF withArabic THEN AyahText(DEFAULT_ARABIC_EDITION, c, v) ELSE UndefinedText,
                 v, QuranSurah(c).englishName, c)
Favorites == {FavoriteOf(1, 7, TRUE), FavoriteOf(1, 7, FALSE), FavoriteOf(2, 7, FALSE)}

\* A call of one of the three operations: where it stands (pc), the list it
\* read, the favorites it requested the Arabic text of, the list it wrote,
\* once done, for getFavoriteAyahs the list it returned, and its rank among
\* the calls in the order they completed (0 until then).
NoAyah == [none |-> TRUE]
Called(op, ayah) ==
    [op |-> op, ayah |-> ayah, pc |-> "read", favorites |-> <<>>,
     requested |-> {}, written |-> <<>>, result |-> <<>>, finished |-> 0]
Finishing == Cardinality({j \in 1..Len(ops) : ops[j].pc = "done"}) + 1
AllDone == \A i \in 1..Len(ops) : ops[i].pc = "done"

\* The user adds the displayed verse to the favorites, removes a favorite, or
\* opens the favorites; here a call starts when the calls before it are done.
CallAdd(ayah) ==
    /\ Len(ops) < MaxOps /\ AllDone
    /\ ops' = Append(ops, Called("addAyahToFavorites", ayah))
    /\ UNCHANGED <<uiVars, apiVars, storage>>
CallRemove(ayah) ==
    /\ Len(ops) < MaxOps /\ AllDone
    /\ ops' = Append(ops, Called("removeAyahFromFavorites", ayah))
    /\ UNCHANGED <<uiVars, apiVars, storage>>
CallList ==
    /\ Len(ops) < MaxOps /\ AllDone
    /\ ops' = Append(ops, Called("getFavoriteAyahs", NoAyah))
    /\ UNCHANGED <<uiVars, apiVars, storage>>

\* api.ts:144, 149, 170: await readFavoritesFromStorage(). getFavoriteAyahs
\* returns what it read when no entry lacks its Arabic text (api.ts:127-129).
ReadFavorites(i) ==
    LET favorites == readFavoritesFromStorage(storage)
    IN  /\ ops[i].pc = "read"
        /\ ops' = [ops EXCEPT ![i] =
                     IF ops[i].op = "getFavoriteAyahs"
                     THEN IF NeedsMigration(favorites)
                          THEN [@ EXCEPT !.favorites = favorites, !.pc = "fetch"]
                          ELSE [@ EXCEPT !.favorites = favorites, !.pc = "done",
                                         !.result = favorites,
                                         !.finished = Finishing]
                     ELSE [@ EXCEPT !.favorites = favorites, !.pc = "write"]]
        /\ UNCHANGED <<uiVars, apiVars, storage>>

\* api.ts:145: await writeFavoritesToStorage([...favorites, ayah])
AddWrite(i) ==
    /\ ops[i].pc = "write" /\ ops[i].op = "addAyahToFavorites"
    /\ storage' = writeFavoritesToStorage(WithAyah(ops[i].favorites, ops[i].ayah))
    /\ ops' = [ops EXCEPT ![i].pc = "done", ![i].finished = Finishing,
                          ![i].written = WithAyah(ops[i].favorites, ops[i].ayah)]
    /\ UNCHANGED <<uiVars, apiVars>>

\* api.ts:150-154: await writeFavoritesToStorage(favorites.filter(...))
RemoveWrite(i) ==
    /\ ops[i].pc = "write" /\ ops[i].op = "removeAyahFromFavorites"
    /\ storage' = writeFavoritesToStorage(WithoutAyah(ops[i].favorites, ops[i].ayah))
    /\ ops' = [ops EXCEPT ![i].pc = "done", ![i].finished = Finishing,
                          ![i].written = WithoutAyah(ops[i].favorites, ops[i].ayah)]
    /\ UNCHANGED <<uiVars, apiVars>>

\* api.ts:131: await Promise.all(favorites.map(ensureArabicText)), the
\* remote API answering each request in one of its ways.
MigrateFetch(i) ==
    /\ ops[i].pc = "fetch"
    /\ \E responses \in MigrationResponses(ops[i].favorites) :
          ops' = [ops EXCEPT ![i].pc = "write",
                             ![i].requested = ArabicRequests(ops[i].favorites),
                             ![i].written = migratedFavoritesOf(ops[i].favorites, responses)]
    /\ UNCHANGED <<uiVars, apiVars, storage>>

\* api.ts:132-133: await writeFavoritesToStorage(migratedFavorites); return
MigrateWrite(i) ==
    /\ ops[i].pc = "write" /\ ops[i].op = "getFavoriteAyahs"
    /\ storage' = writeFavoritesToStorage(ops[i].written)
    /\ ops' = [ops EXCEPT ![i].pc = "done", ![i].finished = Finishing,
                          ![i].result = ops[i].written]
    /\ UNCHANGED <<uiVars, apiVars>>

\* The lists of at most n favorites.
FavoriteLists(n) == UNION {[1..k -> Favorites] : k \in 0..n}

InitFav ==
    /\ rawSearchText = <<>>
    /\ surahs = UndefinedList
    /\ quickReference = Null
    /\ quickLookupLabel = Null
    /\ quickAyah = NullAyah
    /\ quickAyahError = Null
    /\ isQuickAyahLoading = FALSE
    /\ pending = "none"
    /\ fetches = <<>>
    /\ edition = "en.asad"
    /\ cache = <<>>
    /\ call = IdleCall
    /\ storage \in {NoItem} \cup {JSONStringify(favorites) : favorites \in FavoriteLists(MaxStored)}
    /\ ops = <<>>

NextFav ==
    \/ \E ayah \in Favorites : CallAdd(ayah)
    \/ \E ayah \in Favorites : CallRemove(ayah)
    \/ CallList
    \/ \E i \in 1..Len(ops) : ReadFavorites(i)
    \/ \E i \in 1..Len(ops) : AddWrite(i)
    \/ \E i \in 1..Len(ops) : RemoveWrite(i)
    \/ \E i \in 1..Len(ops) : MigrateFetch(i)
    \/ \E i \in 1..Len(ops) : MigrateWrite(i)

SpecFav == InitFav /\ [][NextFav]_vars

\* The same calls, each started whenever the user acts: a call runs up to its
\* next await, and the steps of the calls under way interleave.
InvokeAdd(ayah) ==
    /\ Len(ops) < MaxOps
    /\ ops' = Append(ops, Called("addAyahToFavorites", ayah))
    /\ UNCHANGED <<uiVars, apiVars, storage>>
InvokeRemove(ayah) ==
    /\ Len(ops) < MaxOps
    /\ ops' = Append(ops, Called("removeAyahFromFavorites", ayah))
    /\ UNCHANGED <<uiVars, apiVars, storage>>
InvokeList ==
    /\ Len(ops) < MaxOps
    /\ ops' = Append(ops, Called("getFavoriteAyahs", NoAyah))
    /\ UNCHANGED <<uiVars, apiVars, storage>>

NextFavInterleaved ==
    \/ \E ayah \in Favorites : InvokeAdd(ayah)
    \/ \E ayah \in Favorites : InvokeRemove(ayah)
    \/ InvokeList
    \/ \E i \in 1..Len(ops) : ReadFavorites(i)
    \/ \E i \in 1..Len(ops) : AddWrite(i)
    \/ \E i \in 1..Len(ops) : RemoveWrite(i)
    \/ \E i \in 1..Len(ops) : MigrateFetch(i)
    \/ \E i \in 1..Len(ops) : MigrateWrite(i)

SpecFavInterleaved == InitFav /\ [][NextFavInterleaved]_vars


----------------------------------------------------------------------------
(* The favorites *)

\* The k-th call was operation op and is done, and the call after it was
\* getFavoriteAyahs and is done.
ThenListed(k, op) ==
    /\ k + 1 \in 1..Len(ops)
    /\ ops[k].op = op /\ ops[k].pc = "done"
    /\ ops[k + 1].op = "getFavoriteAyahs" /\ ops[k + 1].pc = "done"

SameLocation(a, b) == a.ayahNumber = b.ayahNumber /\ a.surahNumber = b.surahNumber

\* entry is x, but for an Arabic text that x lacks: there entry has none or
\* the Arabic text of x's verse.
EqualUpToBackfill(entry, x) ==
    /\ entry.text = x.text
    /\ entry.ayahNumber = x.ayahNumber
    /\ entry.surah = x.surah
    /\ entry.surahNumber = x.surahNumber
    /\ x.arabicText # UndefinedText => entry.arabicText = x.arabicText
    /\ x.arabicText = UndefinedText =>
          entry.arabicText \in {UndefinedText,
                                AyahText(DEFAULT_ARABIC_EDITION, x.surahNumber, x.ayahNumber)}

(* C9, as stated: addAyahToFavorites(x) followed by getFavoriteAyahs()
   returns a list with an entry equal to x after the previously stored
   entries, for x with or without Arabic text. *)
C9_AddedIsListed ==
    \A k \in 1..Len(ops) :
       ThenListed(k, "addAyahToFavorites") =>
          /\ Len(ops[k + 1].result) = Len(ops[k].favorites) + 1
          /\ ops[k + 1].result[Len(ops[k + 1].result)] = ops[k].ayah

(* C9, amended: addAyahToFavorites(x) followed by getFavoriteAyahs() returns
   the previously stored entries followed by one for x, each equal to what
   was stored except for an Arabic text that was missing, in whose place the
   entry has none or the Arabic text fetched for its verse. *)
C9_AddedIsListedUpToBackfill ==
    \A k \in 1..Len(ops) :
       ThenListed(k, "addAyahToFavorites") =>
          LET result == ops[k + 1].result
              before == ops[k].favorites
          IN  /\ Len(result) = Len(before) + 1
              /\ \A i \in 1..Len(before) : EqualUpToBackfill(result[i], before[i])
              /\ EqualUpToBackfill(result[Len(result)], ops[k].ayah)

\* C9's case: a favorite without Arabic text was added where an entry at its
\* location was stored, and the list shows both, the new one with the Arabic
\* text fetched for it.
C9_Witness ==
    \E k \in 1..Len(ops) :
       /\ ThenListed(k, "addAyahToFavorites")
       /\ ops[k].ayah.arabicText = UndefinedText
       /\ \E i \in 1..Len(ops[k].favorites) : SameLocation(ops[k].favorites[i], ops[k].ayah)
       /\ ops[k + 1].result[Len(ops[k + 1].result)].arabicText # UndefinedText

\* The positions of the entries of favorites elsewhere than at x's location.
Elsewhere(favorites, x) == {i \in 1..Len(favorites) : ~SameLocation(favorites[i], x)}
\* The j-th smallest of a set of positions.
NthOf(positions, j) ==
    CHOOSE i \in positions : Cardinality({m \in positions : m <= i}) = j

(* C10: removeAyahFromFavorites(x) deletes every stored entry at x's
   location, duplicates included, and leaves every other entry as it is and
   in its order; a following getFavoriteAyahs() has no entry at x's
   location. *)
C10_RemovedByLocation ==
    \A k \in 1..Len(ops) :
       /\ (ops[k].op = "removeAyahFromFavorites" /\ ops[k].pc = "done") =>
             LET kept == Elsewhere(ops[k].favorites, ops[k].ayah)
             IN  /\ Len(ops[k].written) = Cardinality(kept)
                 /\ \A j \in 1..Len(ops[k].written) :
                       ops[k].written[j] = ops[k].favorites[NthOf(kept, j)]
                 /\ k = Len(ops) => storage = JSONStringify(ops[k].written)
       /\ ThenListed(k, "removeAyahFromFavorites") =>
             /\ \A i \in 1..Len(ops[k + 1].result) :
                   ~SameLocation(ops[k + 1].result[i], ops[k].ayah)
             /\ Len(ops[k + 1].result) = Len(ops[k].written)

\* C10's case: two entries at x's location and another between them were
\* stored; after the removal the list shows the other one.
C10_Witness ==
    \E k \in 1..Len(ops) :
       /\ ThenListed(k, "removeAyahFromFavorites")
       /\ Len(ops[k].favorites) = 3
       /\ SameLocation(ops[k].favorites[1], ops[k].ayah)
       /\ ~SameLocation(ops[k].favorites[2], ops[k].ayah)
       /\ SameLocation(ops[k].favorites[3], ops[k].ayah)
       /\ ops[k].favorites[1] # ops[k].favorites[3]
       /\ Len(ops[k + 1].result) = 1


\* The step in which the i-th call, a getFavoriteAyahs, writes the list to
\* storage (api.ts:132).
ListWrites(i) ==
    /\ ops[i].op = "getFavoriteAyahs" /\ ops[i].pc = "write"
    /\ ops'[i].pc = "done"
\* The entries that the i-th call read without Arabic text and got with it.
Backfilled(i) ==
    {j \in 1..Len(ops[i].favorites) :
        /\ ops[i].favorites[j].arabicText = UndefinedText
        /\ ops[i].written[j].arabicText # UndefinedText}

(* C11, as stated: a getFavoriteAyahs() call writes the favorites to storage
   only when at least one entry was backfilled with Arabic text during the
   call; when every backfill fetch of the call fails, storage is left
   unwritten. *)
C11_WriteGatedOnBackfill ==
    [][\A i \in 1..Len(ops) : ListWrites(i) => Backfilled(i) # {}]_vars


\* The positions of the entries of a list that lack Arabic text.
Lacking(favorites) ==
    {j \in 1..Len(favorites) : favorites[j].arabicText = UndefinedText}

(* C12: each getFavoriteAyahs() call requests the Arabic text of exactly the
   entries it read without one. So the call right after it requests nothing
   for the entries the first returned with Arabic text and returns them as
   they are (the same list, when the first left no entry without), while an
   entry whose fetch failed is returned without Arabic text and is requested
   again by the next call. *)
C12_MigrationIdempotent ==
    \A k \in 1..Len(ops) :
       /\ (ops[k].op = "getFavoriteAyahs" /\ ops[k].pc \in {"write", "done"}) =>
             /\ ops[k].requested = Lacking(ops[k].favorites)
             /\ ops[k].pc = "done" =>
                   \A j \in ops[k].requested :
                      ops[k].result[j].arabicText = UndefinedText
                         => ops[k].result[j] = ops[k].favorites[j]
       /\ ThenListed(k, "getFavoriteAyahs") =>
             /\ ops[k + 1].favorites = ops[k].result
             /\ ops[k + 1].requested = Lacking(ops[k].result)
             /\ Len(ops[k + 1].result) = Len(ops[k].result)
             /\ \A j \in 1..Len(ops[k].result) :
                   /\ EqualUpToBackfill(ops[k + 1].result[j], ops[k].result[j])
                   /\ j \notin Lacking(ops[k].result)
                         => ops[k + 1].result[j] = ops[k].result[j]
             /\ Lacking(ops[k].result) = {} => ops[k + 1].result = ops[k].result

\* C12's case: the first call backfilled one entry and failed for another;
\* the second requested the other one alone, next to an entry that had its
\* Arabic text all along.
C12_Witness ==
    \E k \in 1..Len(ops) :
       /\ ThenListed(k, "getFavoriteAyahs")
       /\ Backfilled(k) # {}
       /\ Lacking(ops[k].result) # {}
       /\ ops[k + 1].requested = Lacking(ops[k].result)
       /\ Cardinality(ops[k + 1].requested) = 1
       /\ Len(ops[k].favorites) = 3
       /\ Cardinality(Lacking(ops[k].favorites)) = 2


----------------------------------------------------------------------------
(* The cache and the editions *)

\* The key names the edition e and no other translation edition.
KeyOfEdition(key, e) ==
    /\ IsInfix(<<e>>, key)
    /\ \A other \in Editions \ {e} : ~IsInfix(<<other>>, key)

(* C13: after any cache writes made under different editions and any changes
   of the selected edition, getAyahByReference runs under the selected
   edition and reads only cache keys that name it, so that a verse it returns
   from the cache is one stored under the selected edition. *)
C13_CacheEditionIsolation ==
    /\ [](call.op = "getAyahByReference" =>
             /\ \A key \in call.reads : KeyOfEdition(key, call.userEdition)
             /\ (call.requests = 0 /\ call.outcome.value # NullAyah)
                   => call.outcome.value.text.edition = call.userEdition)
    /\ [][LooksUp => call'.userEdition = edition]_vars

\* C13's case: the verse list of the chapter is cached under the other
\* edition and not under the selected one, and the lookup asked the remote
\* API.
C13_Witness ==
    /\ call.op = "getAyahByReference"
    /\ call.userEdition = edition
    /\ call.reference = <<"1", ":", "7">>
    /\ call.requests = 1
    /\ call.reads # {}
    /\ CachedVerses(1, edition) = <<>>
    /\ \E other \in Editions \ {edition} :
          \E i \in 1..Len(CachedVerses(1, other)) :
             CachedVerses(1, other)[i].numberInSurah = 7


\* The cache holds, under surahs-<e>, a chapter list with chapter c.
ChapterCached(c, e) ==
    LET key == <<"surahs", "-", e>>
    IN  /\ key \in DOMAIN cache
        /\ cache[key].state = "json"
        /\ \E i \in 1..Len(cache[key].value) : cache[key].value[i].number = c
\* The cache holds, under surah-<c>-<e>, a verse list with verse v.
VerseCached(c, v, e) ==
    \E i \in 1..Len(CachedVerses(c, e)) : CachedVerses(c, e)[i].numberInSurah = v

(* C14, as stated: getAyahByReference answers from the cache, with no
   request, only when both the chapter of the reference and the chapter's
   verse list are cached under the current edition, and the answer then
   carries the chapter's name and number; when either is missing it sends the
   request. *)
C14_CacheHitNeedsBoth ==
    [][LooksUp =>
         LET r == DigitsSeparatorDigits(call'.reference)
             both == /\ ChapterCached(r.surahNumber, edition)
                     /\ VerseCached(r.surahNumber, r.ayahNumber, edition)
         IN  r.form =>
                /\ ~both => call'.requests = 1
                /\ call'.requests = 0 =>
                      /\ both
                      /\ call'.outcome.value.surah # NoSurah
                      /\ call'.outcome.value.surah.number = r.surahNumber
                      /\ call'.outcome.value.surah.englishName
                            = QuranSurah(r.surahNumber).englishName]_vars


----------------------------------------------------------------------------
(* getAyahByReference as a function of what the cache holds (api.ts:201-359) *)

\* What cache.get can give for the chapter list and for the verse list of
\* chapter 1 under edition e: nothing, a string JSON.parse rejects, or the
\* list that was stored.
SurahListPayloads == {Missing, Corrupt, Cached(QuranSurahs)}
SurahPayloads(e) ==
    {Missing, Corrupt,
     Cached(getAyahs(e, Ok(<<SurahEdition(e, 1),
                             SurahEdition(DEFAULT_ARABIC_EDITION, 1)>>)).value)}

\* The cache with the two payloads under their keys.
CacheOf(e, surahList, surah) ==
    LET c == IF surahList = Missing THEN <<>>
             ELSE CacheSet(<<>>, CommandCacheKey(e), surahList)
    IN  IF surah = Missing THEN c ELSE CacheSet(c, ReadSurahCacheKey(1, e), surah)

InitCache ==
    /\ rawSearchText = <<>>
    /\ surahs = UndefinedList
    /\ quickReference = Null
    /\ quickLookupLabel = Null
    /\ quickAyah = NullAyah
    /\ quickAyahError = Null
    /\ isQuickAyahLoading = FALSE
    /\ pending = "none"
    /\ fetches = <<>>
    /\ edition \in Editions
    /\ \E surahList \in SurahListPayloads : \E surah \in SurahPayloads(edition) :
          cache = CacheOf(edition, surahList, surah)
    /\ call = IdleCall
    /\ storage = <<>>
    /\ ops = <<>>

NextCache == \E reference \in LookupReferences : Lookup(reference)

SpecCache == InitCache /\ [][NextCache]_vars

\* The payload under the key does not parse.
CorruptUnder(key) == key \in DOMAIN cache /\ cache[key].state = "corrupt"

(* C15, as stated: if the chapter list or the chapter's verse list in the
   cache fails to deserialize, the lookup is a cache miss: getAyahByReference
   raises nothing, returns nothing from the cache and sends the request. *)
C15_CacheFailsClosed ==
    [][LooksUp =>
         LET r == DigitsSeparatorDigits(call'.reference)
         IN  (r.form /\ (\/ CorruptUnder(<<"surahs", "-", edition>>)
                         \/ CorruptUnder(<<"surah", "-">> \o toString(r.surahNumber)
                                            \o <<"-", edition>>)))
                => /\ ~call'.outcome.threw
                   /\ call'.requests = 1]_vars


----------------------------------------------------------------------------
(* The quick lookup: what it shows for a fetch that ends *)

\* The step in which the request of the i-th waiting fetch is answered by
\* response and the fetch, not cancelled, ends.
AnsweredBy(i, response) ==
    /\ ~fetches[i].didCancel
    /\ getAyahByReferenceRequests(fetches[i].sync) = 1
    /\ ResolveFetch(i, response)

\* The remote API answered without the translation edition.
WithoutTranslation(response, e) ==
    /\ response.kind = "ok"
    /\ response.data # UndefinedList
    /\ \A k \in 1..Len(response.data) : response.data[k].identifier # e

(* C16, as stated: when the fetch of the quick lookup ends in a network
   error, a status outside 2xx or a malformed payload, the lookup shows
   'Unable to load ayah'; when the remote API answers without a matching
   edition or verse it shows 'Ayah not found'; the two never show the same
   message. *)
C16_FailureKindsDistinct ==
    [][\A i \in 1..Len(fetches) :
          \A response \in ResponsesFor(fetches[i]) :
             AnsweredBy(i, response) =>
                /\ response \in Failures
                      => /\ quickAyahError' = UnableToLoadError
                         /\ quickAyah' = NullAyah
                /\ WithoutTranslation(response, fetches[i].userEdition)
                      => /\ quickAyahError' = AyahNotFoundError
                         /\ quickAyah' = NullAyah]_vars


\* The effects have run, the search text is an accepted reference and no
\* fetch for it waits.
AcceptedAndSettled ==
    /\ pending = "none"
    /\ quickReference # Null
    /\ \A i \in 1..Len(fetches) : fetches[i].didCancel

\* The lookup shows an error that a fetch set.
ShowsFetchError ==
    /\ Shown.kind = "error"
    /\ Shown.message \in {AyahNotFoundError, UnableToLoadError}

\* The lookup shows an error that a fetch set, the effects have run and the
\* chapter list has not arrived.
FetchErrorBeforeList ==
    ShowsFetchError /\ pending = "none" /\ surahs = UndefinedList

(* C17, as stated: whenever the search text is an accepted reference and no
   fetch for it is in flight, the lookup shows the fetched verse or an error;
   once a fetch has resolved absent or failed, the error stays displayed and
   no new fetch is started until the user changes the search text: the
   validation that runs again when the chapter list arrives leaves an error
   in place. *)
C17_ErrorStaysWithoutRetry ==
    /\ [](AcceptedAndSettled => Shown.kind \in {"ayah", "error"})
    /\ [](FetchErrorBeforeList =>
             \A response \in SurahListResponses :
                getSurah(response).value # UndefinedList =>
                   ValidateReference(searchText, getSurah(response).value,
                                     LookupState).error # Null)
    /\ [][ShowsFetchError => ~Starts]_vars

----------------------------------------------------------------------------
(* Texts that are not references *)

\* The search text is not of the form <digits><separator><digits>.
NotAReference == ~DigitsSeparatorDigits(searchText).form

\* Validation has run for the search text and the chapter list is loaded.
ListedFor(text) ==
    /\ pending # "validation"
    /\ surahs # UndefinedList
    /\ searchText = text

\* The chapters of the loaded list, in order, that the filter keeps for text.
Filtered(text) == filterSurahs(surahs, text)

\* The lookup state is fully cleared.
LookupCleared ==
    /\ quickLookupLabel = Null
    /\ quickReference = Null
    /\ quickAyah = NullAyah
    /\ quickAyahError = Null
    /\ ~isQuickAyahLoading

\* text is head, a separator and anything, where head has no separator.
HeadOf(text, head) ==
    /\ Len(head) < Len(text)
    /\ SubSeq(text, 1, Len(head)) = head
    /\ IsSeparator(text[Len(head) + 1])
    /\ \A k \in 1..Len(head) : ~IsSeparator(head[k])

(* C18, as stated: for every search text that is not of the form
   <digits><separator><digits>, once validation has run the lookup state is
   fully cleared, no fetch is started, and the chapter list filtered by the
   text is shown, with no error. *)
C18_NotAReferenceFallback ==
    /\ []((NotAReference /\ pending # "validation") => LookupCleared)
    /\ [][NotAReference => ~Starts]_vars
    /\ [](\A text \in SearchTexts :
             (NotAReference /\ ListedFor(trim(text)))
                => ShownSurahs = Filtered(trim(text)))

(* C18, amended: for every search text that is not of the form
   <digits><separator><digits>, once validation has run the lookup state is
   fully cleared, no fetch is started, and, with no error, the loaded chapter
   list is shown filtered by the text when it has no separator, and by the
   trimmed part before its first separator when it has one. *)
C18_FallbackFiltersByHead ==
    /\ []((NotAReference /\ pending # "validation") => LookupCleared)
    /\ [][NotAReference => ~Starts]_vars
    /\ [](\A text \in SearchTexts :
             (NotAReference /\ ListedFor(trim(text)))
                => \/ /\ \A k \in 1..Len(trim(text)) : ~IsSeparator(trim(text)[k])
                      /\ ShownSurahs = Filtered(trim(text))
                   \/ \E n \in 0..Len(trim(text)) :
                         /\ HeadOf(trim(text), SubSeq(trim(text), 1, n))
                         /\ ShownSurahs = Filtered(trim(SubSeq(trim(text), 1, n))))

\* C18's case: "2 :" is typed over a loaded list while a verse is shown, and
\* chapter 2 alone is listed.
C18_Witness ==
    /\ NotAReference
    /\ ListedFor(<<"2", " ", ":">>)
    /\ LookupCleared
    /\ Len(ShownSurahs) = 1
    /\ ShownSurahs[1].number = 2
    /\ fetches # <<>>

----------------------------------------------------------------------------
(* Validation failures *)

\* The first of the three validation failures that applies to the search
\* text, "none" when it does not match the pattern or passes all three.
FirstFailure ==
    IF ~MatchReference(searchText).matched THEN "none"
    ELSE IF DigitsSeparatorDigits(searchText).surahNumber \notin 1..114 THEN "chapter"
    ELSE IF DigitsSeparatorDigits(searchText).ayahNumber < 1 THEN "verse"
    ELSE IF AboveKnownCount THEN "count"
    ELSE "none"

(* C19: for a text that matches the pattern and fails validation (chapter
   outside 1..114, else verse below 1, else verse above the known count),
   once validation has run the pending reference is cleared, the error of the
   first failure in that order is set, there is no verse and the loading flag
   is false, so the error is shown and not a loading state; and no fetch is
   started while the text fails validation. *)
C19_FailureReplacesLoading ==
    /\ []((pending # "validation" /\ FirstFailure # "none")
            => /\ quickReference = Null
               /\ quickAyah = NullAyah
               /\ ~isQuickAyahLoading
               /\ Shown.kind = "error"
               /\ FirstFailure = "chapter" => quickAyahError = SurahRangeError
               /\ FirstFailure = "verse" => quickAyahError = AyahPositiveError
               /\ FirstFailure = "count"
                     => quickAyahError \notin {Null, SurahRangeError, AyahPositiveError})
    /\ [][FirstFailure # "none" => ~Starts]_vars

\* C19's case: 0:0, which fails on the chapter and on the verse, is typed
\* while a verse is loading, and the range error is shown.
C19_Witness ==
    /\ pending = "none"
    /\ searchText = <<"0", ":", "0">>
    /\ FirstFailure = "chapter"
    /\ Shown.kind = "error"
    /\ fetches # <<>>

----------------------------------------------------------------------------
(* filterSurahs as a function of the list and the search string *)

\* The chapter lists: absent, or the model's chapters, some or all of them,
\* in any order.
FilterLists ==
    {UndefinedList, NullList}
        \cup DistinctSeqs({QuranSurahs[i] : i \in 1..Len(QuranSurahs)}, Len(QuranSurahs))

\* The search strings.
FilterTexts ==
    { <<>>,
      <<"a">>,
      <<"A", "L", "-">>,
      <<"b", "A", "q">>,
      <<"n", "a", "a", "s">>,
      <<"x">>,
      <<"1">>,
      <<"2">>,
      <<"1", "4">>,
      <<"4", "1">>,
      <<"1", ":">> }

\* filterSurahs(surahs, searchText) is about to be called.
InitFilter ==
    /\ rawSearchText = <<>>
    /\ surahs = UndefinedList
    /\ quickReference = Null
    /\ quickLookupLabel = Null
    /\ quickAyah = NullAyah
    /\ quickAyahError = Null
    /\ isQuickAyahLoading = FALSE
    /\ pending = "none"
    /\ fetches = <<>>
    /\ edition = "en.asad"
    /\ cache = <<>>
    /\ \E list \in FilterLists : \E text \in FilterTexts :
          call = [op |-> "filter", surahs |-> list, searchText |-> text]
    /\ storage = <<>>
    /\ ops = <<>>

\* api.ts:157-167: filterSurahs returns.
FilterSurahs ==
    /\ call.op = "filter"
    /\ call' = [op |-> "filterSurahs", surahs |-> call.surahs,
                searchText |-> call.searchText,
                result |-> filterSurahs(call.surahs, call.searchText)]
    /\ UNCHANGED <<uiVars, edition, cache, favVars>>

NextFilter == FilterSurahs

SpecFilter == InitFilter /\ [][NextFilter]_vars

\* filterSurahs has returned; it was given a list.
Filters == call.op = "filterSurahs"
FiltersLoaded == Filters /\ call.surahs \notin {UndefinedList, NullList}

\* Two characters are the same, or the two cases of one letter.
SameLetter(a, b) ==
    a = b \/ \E k \in 1..Len(UpperCase) : {a, b} = {UpperCase[k], LowerCase[k]}

\* s contains sub as a run of consecutive characters, ignoring case.
ContainsIgnoringCase(s, sub) ==
    \E start \in 0..(Len(s) - Len(sub)) :
        \A k \in 1..Len(sub) : SameLetter(s[start + k], sub[k])

\* The positions of the chapters of list whose english name or decimal number
\* contains text.
Containing(list, text) ==
    {i \in 1..Len(list) :
        \/ ContainsIgnoringCase(Characters(list[i].englishName), text)
        \/ ContainsIgnoringCase(toString(list[i].number), text)}

(* C20: for a loaded chapter list and a search string, filterSurahs returns
   exactly the chapters, in their original order, whose english name or
   decimal chapter number contains the search string ignoring case: a list,
   empty when nothing matches; and it returns undefined when the chapter list
   is absent, and only then. *)
C20_ChapterFilter ==
    /\ FiltersLoaded
          => LET kept == Containing(call.surahs, call.searchText)
             IN  /\ call.result # UndefinedList
                 /\ Len(call.result) = Cardinality(kept)
                 /\ \A j \in 1..Len(call.result) :
                       call.result[j] = call.surahs[NthOf(kept, j)]
    /\ (Filters /\ ~FiltersLoaded) => call.result = UndefinedList

\* C20's case: "AL-" keeps the two chapters named Al-..., the second before
\* the first as the list has them, and drops An-Naas between them.
C20_Witness ==
    /\ FiltersLoaded
    /\ call.searchText = <<"A", "L", "-">>
    /\ call.surahs = <<QuranSurahs[2], QuranSurahs[3], QuranSurahs[1]>>
    /\ call.result = <<QuranSurahs[2], QuranSurahs[1]>>

----------------------------------------------------------------------------
(* Spellings of one reference *)

\* Validation is due for a text that denotes the pending reference and fails
\* none of the three checks: another spelling of it has been typed, or the
\* chapter list has arrived.
RespelledPending ==
    /\ pending = "validation"
    /\ DigitsSeparatorDigits(searchText).form
    /\ FirstFailure = "none"
    /\ quickReference = Denoted(searchText)

\* Neither number of the search text has more than three digits.
WithinReferenceDigits == DigitsSeparatorDigits(searchText).digits <= MaxReferenceDigits

\* The validation run leaves the pending reference as it is and does not make
\* the fetch effect due, whose run is what cancels the fetch in flight and
\* starts another.
KeepsPending == quickReference' = quickReference /\ fetches' = fetches /\ pending' = "none"

(* C21, as stated: every text of the form <digits><separator><digits>
   produces the normalized reference "<chapter>:<verse>" of the pair it
   denotes, whatever its separator, white space and leading zeros; and when
   the text is changed to another spelling of the pending reference, the
   pending reference is unchanged, the fetch in flight is not cancelled and
   no second fetch is started. *)
C21_SpellingsShareReference ==
    /\ []((pending # "validation" /\ DigitsSeparatorDigits(searchText).form)
            => quickLookupLabel = Denoted(searchText))
    /\ [][RespelledPending => KeepsPending]_vars

(* C21, amended: every text of the form <digits><separator><digits> with at
   most three digits in each number produces the normalized reference
   "<chapter>:<verse>" of the pair it denotes, whatever its separator, white
   space and leading zeros; and when the text is changed to another such
   spelling of the pending reference, the pending reference is unchanged, the
   fetch in flight is not cancelled and no second fetch is started. *)
C21_ShortSpellingsShareReference ==
    /\ []((pending # "validation" /\ DigitsSeparatorDigits(searchText).form
             /\ WithinReferenceDigits)
            => quickLookupLabel = Denoted(searchText))
    /\ [][(RespelledPending /\ WithinReferenceDigits) => KeepsPending]_vars

\* C21's case: 2:255 was typed, then "02 / 255" while its fetch was waiting;
\* that fetch is still the only one, and is not cancelled.
C21_Witness ==
    /\ pending = "none"
    /\ searchText = <<"0", "2", " ", "/", " ", "2", "5", "5">>
    /\ quickReference = <<"2", ":", "2", "5", "5">>
    /\ quickLookupLabel = quickReference
    /\ Len(fetches) = 1
    /\ fetches[1].text = <<"2", ":", "2", "5", "5">>
    /\ ~fetches[1].didCancel

----------------------------------------------------------------------------
(* Favorites calls that interleave *)

\* The calls of an operation that target x's location.
CallsAt(op, x) ==
    {i \in 1..Len(ops) : ops[i].op = op /\ SameLocation(ops[i].ayah, x)}

\* The positions of the stored entries at x's location.
StoredAt(x) ==
    {k \in 1..Len(readFavoritesFromStorage(storage)) :
        SameLocation(readFavoritesFromStorage(storage)[k], x)}

\* Some calls were made and all have completed.
AllCompleted == ops # <<>> /\ AllDone

(* C22, as stated: for every interleaving, at their await points, of
   addAyahToFavorites, removeAyahFromFavorites and getFavoriteAyahs, once all
   calls have completed the stored list has an entry for every completed add
   whose location no remove targeted, and has no entry at a location whose
   remove completed after the last add there. *)
C22_NoLostUpdate ==
    AllCompleted =>
       \A x \in Favorites :
          /\ CallsAt("removeAyahFromFavorites", x) = {}
                => Cardinality(StoredAt(x)) >= Cardinality(CallsAt("addAyahToFavorites", x))
          /\ (\E j \in CallsAt("removeAyahFromFavorites", x) :
                 \A i \in CallsAt("addAyahToFavorites", x) :
                    ops[i].finished < ops[j].finished)
                => StoredAt(x) = {}

----------------------------------------------------------------------------
(* The verse under the label *)

\* The reference of the verse a fetch for it resolves to: the chapter and the
\* verse number its text is the text of.
ReferenceOf(ayah) == FormatReference(ayah.text.surah, ayah.text.ayah)

(* C23, as stated: in every reachable state, when a verse is shown under the
   label c:v (label set, not loading, verse present), the verse is the one
   fetched for reference c:v: the verse of an earlier reference is never shown
   under a newer label, the states between the change of the input and the
   start of the new fetch included. *)
C23_VerseMatchesLabel ==
    Shown.kind = "ayah" => ReferenceOf(Shown.ayah) = Shown.label
====
